---- MODULE Spec2Model ----
(***************************************************************************)
(* Model of convert.py (Bitwarden export -> Mooltipass CSV).               *)
(*                                                                         *)
(* One run of main() is a linear pass: get_args, the --file check,         *)
(* load_json, the two folder resolutions, open of "<file>.csv", the loop   *)
(* over js['items'] with its inner loop over login['uris'], and the close  *)
(* of the csv at the end of the with block.  An uncaught Python exception  *)
(* ends the run in pc = "crashed" (exit status 1); the with block closes   *)
(* the csv on the way out.                                                 *)
(*                                                                         *)
(* Representation of Python values:                                        *)
(*   - a folder id is a non-empty sequence of digits (a non-empty string); *)
(*     None, for an id-valued expression, is the empty sequence.  Folder   *)
(*     ids of a Bitwarden export are never empty strings, so "truthy"      *)
(*     and "is not None" coincide on them;                                 *)
(*   - a folder name / option value is a string; an option that was not    *)
(*     given (argparse default None) is NoArg;                             *)
(*   - a dict key that is missing is Absent, a JSON null is Null;          *)
(*   - login['uris'] is a record [kind, list], kind being "absent",        *)
(*     "null" or "list";                                                   *)
(*   - the k-th uri string of the i-th item is the pair <<i, k>>: uri      *)
(*     strings are opaque and stand for their place in the document.       *)
(***************************************************************************)
EXTENDS Integers, Sequences, FiniteSets, TLC

VARIABLES argv, pc, exit_status, err, js, folder_id, exclude, csv, console, n, u

vars == <<argv, pc, exit_status, err, js, folder_id, exclude, csv, console, n, u>>

----------------------------------------------------------------------------
(* Bounds of the explored inputs.                                          *)

MaxFolders == 2
MaxItems == 2
MaxUris == 2

----------------------------------------------------------------------------
(* Python values.                                                          *)

None == <<>>
NoArg == ""
Absent == "<absent>"
Null == "<null>"

Names == {"Work", "Home"}

\* the id of the j-th folder of a document: "1", "11", "111", ...  The ids of
\* one document differ, and a shorter one is contained in a longer one
Id(j) == [x \in 1..j |-> 1]
Ids == {Id(j) : j \in 1..MaxFolders}

\* Python's  a in b  for two strings: a occurs in b as a contiguous substring
IsSubstring(a, b) ==
    \E s \in 0..(Len(b) - Len(a)) : SubSeq(b, s + 1, s + Len(a)) = a

\* str() as applied by an f-string to a JSON value
Str(v) == IF v = Null THEN "None" ELSE v

----------------------------------------------------------------------------
(* Input documents.                                                        *)

UriList(i, k) == [kind |-> "list", list |-> [j \in 1..k |-> <<i, j>>]]
NoUris(kind) == [kind |-> kind, list |-> <<>>]

NoLogin == [present |-> FALSE, username |-> Absent, password |-> Absent,
            uris |-> NoUris("absent")]
Login(username, password, uris) ==
    [present |-> TRUE, username |-> username, password |-> password, uris |-> uris]

\* the items that may stand at position i of js['items']
ItemsAt(i) ==
       \* a credential in a folder, with no uri or one
       { [folderId |-> f, login |-> Login("u", "p", UriList(i, k))] :
             f \in Ids, k \in 0..1 }
  \cup \* a credential in no folder, with 0..MaxUris uris
       { [folderId |-> None, login |-> Login("u", "p", UriList(i, k))] :
             k \in 0..MaxUris }
  \cup \* a note or card: no login data
       { [folderId |-> None, login |-> NoLogin] }
  \cup \* credentials with a missing or null field
       { [folderId |-> None, login |-> Login(Absent, "p", UriList(i, 1))],
         [folderId |-> None, login |-> Login("u", Absent, UriList(i, 1))],
         [folderId |-> None, login |-> Login(Null, "p", UriList(i, 1))],
         [folderId |-> None, login |-> Login("u", "p", NoUris("absent"))],
         [folderId |-> None, login |-> Login("u", "p", NoUris("null"))] }

\* js['folders']: up to MaxFolders folders, any names, the j-th with id Id(j)
FolderLists ==
    UNION { { [j \in 1..len |-> [id |-> Id(j), name |-> names[j]]] :
                names \in [1..len -> Names] } : len \in 0..MaxFolders }

\* js['items']: up to MaxItems items
ItemLists ==
    UNION { { il \in [1..len -> UNION {ItemsAt(i) : i \in 1..len}] :
                \A i \in 1..len : il[i] \in ItemsAt(i) } : len \in 0..MaxItems }

NotLoaded == [loaded |-> FALSE, folders |-> <<>>, items |-> <<>>]
Document(fs, il) == [loaded |-> TRUE, folders |-> fs, items |-> il]

----------------------------------------------------------------------------
(* Helpers of main().                                                      *)

\* len(sys.argv): the program name and, per option given, the flag and its value
ArgvLen(a) ==
    1 + 2 * Cardinality({o \in {"file", "filter", "exclude"} : a[o] # NoArg})

RECURSIVE ScanFolders(_, _, _)
\* the for loop of folder_name_to_id, from position j on
ScanFolders(folders, name, j) ==
    IF j > Len(folders) THEN None
    ELSE IF folders[j].name = name THEN folders[j].id
    ELSE ScanFolders(folders, name, j + 1)

RECURSIVE ScanFoldersLast(_, _, _)
\* a scan that keeps the last folder of the name instead of the first
ScanFoldersLast(folders, name, j) ==
    IF j < 1 THEN None
    ELSE IF folders[j].name = name THEN folders[j].id
    ELSE ScanFoldersLast(folders, name, j - 1)

folder_name_to_id_last(doc, name) == ScanFoldersLast(doc.folders, name, Len(doc.folders))

folder_name_to_id(doc, name) == ScanFolders(doc.folders, name, 1)

\* a resolver that answers a name it cannot find with an id no folder has
Resolve_nomatch(doc, option) ==
    IF option = NoArg THEN None
    ELSE IF folder_name_to_id(doc, option) = None THEN <<0>>
    ELSE folder_name_to_id(doc, option)

\* if args.filter: folder_id = folder_name_to_id(js, args.filter)
\* if args.exclude: exclude = folder_name_to_id(js, args.exclude)
Resolve(doc, option) ==
    IF option # NoArg THEN folder_name_to_id(doc, option) ELSE None

\* the containment test negated
Excluded_inverted(folderid, excl) ==
    folderid # None /\ excl # None /\ ~IsSubstring(folderid, excl)

\* if folderid and exclude: if folderid in exclude: continue
Excluded(folderid, excl) ==
    folderid # None /\ excl # None /\ IsSubstring(folderid, excl)

\* item = f"{uri['uri']},{username},{password}"
FormatItem(uri, username, password) ==
    [uri |-> uri, username |-> Str(username), password |-> Str(password)]

\* the uris taken from the end of the list
UriAt_reversed(uris, k) == uris[Len(uris) - k + 1]

\* the k-th element yielded by  for uri in login['uris']
UriAt(uris, k) == uris[k]

Text(t) == [kind |-> "text", text |-> t, item |-> FormatItem(<<0, 0>>, "", "")]
Line(item) == [kind |-> "item", text |-> "", item |-> item]

Closed(f) == [f EXCEPT !.state = IF f.state = "open" THEN "closed" ELSE f.state]

\* an uncaught exception: traceback, exit status 1; the with block closes csv
Raise(e) ==
    /\ pc' = "crashed"
    /\ err' = e
    /\ exit_status' = 1
    /\ csv' = Closed(csv)

----------------------------------------------------------------------------
(* The run.                                                                *)

Init ==
    /\ argv \in [file : {NoArg, "export.json"},
                 filter : {NoArg} \cup Names,
                 exclude : {NoArg} \cup Names]
    /\ pc = "start"
    /\ exit_status = -1    \* no exit status yet
    /\ err = ""
    /\ js = NotLoaded
    /\ folder_id = None
    /\ exclude = None
    /\ csv = [state |-> "unopened", lines |-> <<>>]
    /\ console = <<>>
    /\ n = 0
    /\ u = 0

\* print("Bitwarden to Mooltipass"); args = get_args()
GetArgs ==
    /\ pc = "start"
    /\ IF ArgvLen(argv) < 2
       THEN /\ console' = console \o <<Text("banner"), Text("help")>>
            /\ pc' = "exited"
            /\ exit_status' = 1
       ELSE /\ console' = Append(console, Text("banner"))
            /\ pc' = "args"
            /\ UNCHANGED exit_status
    /\ UNCHANGED <<argv, err, js, folder_id, exclude, csv, n, u>>

\* if not args.file: print("Error: ..."); exit()
CheckFile ==
    /\ pc = "args"
    /\ IF argv.file = NoArg
       THEN /\ console' = Append(console, Text("error"))
            /\ pc' = "exited"
            /\ exit_status' = 0
       ELSE /\ pc' = "load"
            /\ UNCHANGED <<console, exit_status>>
    /\ UNCHANGED <<argv, err, js, folder_id, exclude, csv, n, u>>

\* js = load_json(args.file)
\* a run that opens (and truncates) the csv before it loads the document
LoadJson_openfirst ==
    /\ pc = "load"
    /\ \/ \E fs \in FolderLists, il \in ItemLists :
            /\ js' = Document(fs, il)
            /\ pc' = "resolve"
            /\ UNCHANGED <<exit_status, err, csv>>
       \/ \E e \in {"FileNotFoundError", "JSONDecodeError"} :
            /\ pc' = "crashed"
            /\ err' = e
            /\ exit_status' = 1
            /\ csv' = [state |-> "closed", lines |-> <<>>]
            /\ UNCHANGED js
    /\ UNCHANGED <<argv, folder_id, exclude, console, n, u>>

LoadJson ==
    /\ pc = "load"
    /\ \/ \E fs \in FolderLists, il \in ItemLists :
            /\ js' = Document(fs, il)
            /\ pc' = "resolve"
            /\ UNCHANGED <<exit_status, err, csv>>
       \/ \E e \in {"FileNotFoundError", "JSONDecodeError"} :
            /\ Raise(e)
            /\ UNCHANGED js
    /\ UNCHANGED <<argv, folder_id, exclude, console, n, u>>

\* folder_id = ...; exclude = ...
ResolveFolders ==
    /\ pc = "resolve"
    /\ folder_id' = Resolve(js, argv.filter)
    /\ exclude' = Resolve(js, argv.exclude)
    /\ pc' = "open"
    /\ UNCHANGED <<argv, exit_status, err, js, csv, console, n, u>>

\* with open(f"{args.file}.csv", 'w') as csv:
OpenCsv ==
    /\ pc = "open"
    /\ csv' = [state |-> "open", lines |-> <<>>]
    /\ pc' = "items"
    /\ n' = 1
    /\ UNCHANGED <<argv, exit_status, err, js, folder_id, exclude, console, u>>

\* one iteration of  for i in js['items']  up to the start of the uri loop
NextItem ==
    /\ pc = "items"
    /\ n <= Len(js.items)
    /\ LET i == js.items[n]
           login == i.login
           skip == /\ pc' = "items"
                   /\ n' = n + 1
                   /\ UNCHANGED <<exit_status, err, csv, u>>
       IN  IF Excluded(i.folderId, exclude) THEN skip
           ELSE IF ~login.present THEN skip
           ELSE IF login.username = Absent
                THEN Raise("KeyError: 'username'") /\ UNCHANGED <<n, u>>
           ELSE IF login.password = Absent
                THEN Raise("KeyError: 'password'") /\ UNCHANGED <<n, u>>
           ELSE IF login.uris.kind = "absent"
                THEN Raise("KeyError: 'uris'") /\ UNCHANGED <<n, u>>
           ELSE IF login.uris.kind = "null"
                THEN Raise("TypeError: 'NoneType' object is not iterable")
                     /\ UNCHANGED <<n, u>>
           ELSE IF login.uris.list = <<>> THEN skip
           ELSE /\ pc' = "uris"
                /\ u' = 1
                /\ UNCHANGED <<exit_status, err, csv, n>>
    /\ UNCHANGED <<argv, js, folder_id, exclude, console>>

\* one iteration of  for uri in login['uris']
WriteUri ==
    /\ pc = "uris"
    /\ LET i == js.items[n]
           login == i.login
           item == FormatItem(UriAt(login.uris.list, u), login.username, login.password)
           emit == /\ console' = Append(console, Line(item))
                   /\ csv' = [csv EXCEPT !.lines = Append(@, item)]
           advance == /\ IF u < Len(login.uris.list)
                         THEN u' = u + 1 /\ UNCHANGED <<pc, n>>
                         ELSE pc' = "items" /\ n' = n + 1 /\ u' = 0
                      /\ UNCHANGED <<exit_status, err>>
       IN  IF folder_id # None
           THEN IF i.folderId = None
                THEN /\ Raise("TypeError/KeyError: 'folderId'")
                     /\ UNCHANGED <<console, n, u>>
                ELSE IF IsSubstring(folder_id, i.folderId)
                     THEN emit /\ advance
                     ELSE advance /\ UNCHANGED <<console, csv>>
           ELSE emit /\ advance
    /\ UNCHANGED <<argv, js, folder_id, exclude>>

\* the end of the with block and of main()
CloseCsv ==
    /\ pc = "items"
    /\ n > Len(js.items)
    /\ csv' = Closed(csv)
    /\ pc' = "done"
    /\ exit_status' = 0
    /\ UNCHANGED <<argv, err, js, folder_id, exclude, console, n, u>>

Next ==
    \/ GetArgs
    \/ CheckFile
    \/ LoadJson
    \/ ResolveFolders
    \/ OpenCsv
    \/ NextItem
    \/ WriteUri
    \/ CloseCsv

Spec == Init /\ [][Next]_vars

----------------------------------------------------------------------------
(* Vocabulary of the properties.                                           *)

\* the document is loaded and both folder resolutions have been made
Resolved == js.loaded /\ pc # "resolve"

\* the option names a folder that no entry of js['folders'] has
Unresolvable(option) ==
    option # NoArg /\ \A j \in 1..Len(js.folders) : js.folders[j].name # option

\* the positions of the folders that carry the name
Matches(option) == {j \in 1..Len(js.folders) : js.folders[j].name = option}

\* the id of the first folder of that name, None when there is none
FirstMatch(option) ==
    IF Matches(option) = {} THEN None
    ELSE js.folders[CHOOSE j \in Matches(option) : \A m \in Matches(option) : j <= m].id

\* the lines echoed to the console, in order
EchoedLines ==
    LET items == SelectSeq(console, LAMBDA e : e.kind = "item")
    IN  [j \in 1..Len(items) |-> items[j].item]

\* the positions in js['items'] of the items that have a line in the sequence
Emitters(lines) == {lines[j].uri[1] : j \in 1..Len(lines)}

\* the item is dropped by the exclusion of section 4.3 (equal to, or contained
\* in, the exclude id)
ExcludedItem(item) ==
    item.folderId # None /\ exclude # None /\ IsSubstring(item.folderId, exclude)

\* every uri of item number idx has its line in the csv, with the item's
\* username and password
FullyWritten(idx) ==
    LET login == js.items[idx].login
    IN  \A k \in 1..Len(login.uris.list) :
            \E j \in 1..Len(csv.lines) :
                csv.lines[j] = [uri |-> <<idx, k>>, username |-> Str(login.username),
                                password |-> Str(login.password)]

RECURSIVE ExpectedUnfiltered(_)
\* what a run without an include filter writes for the first m items: one
\* line per uri of every credential that is not excluded, in document order
ExpectedUnfiltered(m) ==
    IF m = 0 THEN <<>>
    ELSE LET item == js.items[m]
         IN  ExpectedUnfiltered(m - 1) \o
             (IF item.login.present /\ ~ExcludedItem(item)
              THEN [k \in 1..Len(item.login.uris.list) |->
                      [uri |-> <<m, k>>, username |-> Str(item.login.username),
                       password |-> Str(item.login.password)]]
              ELSE <<>>)

\* the filter of section 4.3: not excluded, and in the include folder when
\* an include id is set
IncludedItem(item) ==
    /\ item.login.present
    /\ ~ExcludedItem(item)
    /\ folder_id # None => item.folderId = folder_id

RECURSIVE UriCount(_)
\* the number of uris of the included items among the first m
UriCount(m) ==
    IF m = 0 THEN 0
    ELSE UriCount(m - 1) +
         (IF IncludedItem(js.items[m]) THEN Len(js.items[m].login.uris.list) ELSE 0)

----------------------------------------------------------------------------
(* C1: a --filter that names no folder of the document makes the run emit  *)
(* nothing: no line in the csv, no line on the console.                    *)
C1_NoRecords ==
    (Resolved /\ Unresolvable(argv.filter)) =>
        (csv.lines = <<>> /\ EchoedLines = <<>>)

(* C1: as amended.  A --filter that names no folder of the document leaves *)
(* folder_id unset and the run applies no include filter: a completed run  *)
(* has written exactly one line per uri of every item that has login data  *)
(* and is not excluded by --exclude.                                       *)
C1_UnresolvedFilterIsNoFilter ==
    (Resolved /\ Unresolvable(argv.filter)) =>
        /\ folder_id = None
        /\ pc = "done" => csv.lines = ExpectedUnfiltered(Len(js.items))

C1_Witness ==
    /\ pc = "done"
    /\ Unresolvable(argv.filter)
    /\ Len(csv.lines) >= 2
    /\ \E idx \in 1..Len(js.items) : js.items[idx].folderId # None

(* C2: with an include id resolved, an item is emitted only if its         *)
(* folderId equals the include id; an item whose folderId is absent or     *)
(* null is not emitted and does not stop the run.                          *)
C2_OnlyEqualFolderEmitted ==
    folder_id # None =>
        /\ \A idx \in Emitters(csv.lines) : js.items[idx].folderId = folder_id
        /\ ~(pc = "crashed" /\ err = "TypeError/KeyError: 'folderId'")

(* C3: exclude wins over include.  An item whose folderId is both the      *)
(* resolved include id and the resolved exclude id has no line in the csv  *)
(* and none on the console.                                                *)
C3_ExcludeWins ==
    \A idx \in 1..Len(js.items) :
        (/\ Resolved
         /\ folder_id # None
         /\ js.items[idx].folderId = folder_id
         /\ js.items[idx].folderId = exclude)
        => idx \notin Emitters(csv.lines) \cup Emitters(EchoedLines)

C3_Witness ==
    /\ pc = "done"
    /\ \E idx \in 1..Len(js.items) :
          /\ folder_id # None
          /\ js.items[idx].folderId = folder_id
          /\ js.items[idx].folderId = exclude
          /\ js.items[idx].login.present
          /\ js.items[idx].login.uris.list # <<>>

(* C4: at the end of a completed run the csv has as many lines as the      *)
(* items that have login data and pass the include/exclude filter have     *)
(* uris.                                                                   *)
C4_LineCount ==
    pc = "done" => Len(csv.lines) = UriCount(Len(js.items))

(* C5: an item that has login data but whose uris is missing, null or      *)
(* empty produces no record and does not fail the run.                     *)
C5_NoUrisNoFailure ==
    \A idx \in 1..Len(js.items) :
        (js.items[idx].login.present /\ js.items[idx].login.uris.list = <<>>)
        => /\ idx \notin Emitters(csv.lines)
           /\ ~(/\ pc = "crashed"
                /\ n = idx
                /\ err \in {"KeyError: 'uris'",
                            "TypeError: 'NoneType' object is not iterable"})

(* C6: an included item whose login data lacks username or password does   *)
(* not fail the extraction.                                                *)
C6_MissingFieldNoFailure ==
    \A idx \in 1..Len(js.items) :
        (/\ js.items[idx].login.present
         /\ Absent \in {js.items[idx].login.username, js.items[idx].login.password})
        => ~(/\ pc = "crashed"
             /\ n = idx
             /\ err \in {"KeyError: 'username'", "KeyError: 'password'"})

(* C7: invoked with arguments but without --file the program prints an     *)
(* error, exits with a non-zero status and never opens the output file;    *)
(* invoked with no argument it prints help and exits with status 1.        *)
C7_UsageError ==
    pc = "exited" =>
        /\ csv.state = "unopened"
        /\ exit_status # 0
        /\ ArgvLen(argv) < 2 => (exit_status = 1 /\ console[Len(console)] = Text("help"))
        /\ ArgvLen(argv) >= 2 => console[Len(console)] = Text("error")

(* C8: the lines are written in item-then-uri order of the document, and   *)
(* at every point of the run the lines echoed to the console are the lines *)
(* written to the csv.                                                     *)
C8_DocumentOrder ==
    /\ EchoedLines = csv.lines
    /\ \A p, q \in 1..Len(csv.lines) :
          p < q => \/ csv.lines[p].uri[1] < csv.lines[q].uri[1]
                   \/ /\ csv.lines[p].uri[1] = csv.lines[q].uri[1]
                      /\ csv.lines[p].uri[2] < csv.lines[q].uri[2]

C8_Witness ==
    /\ pc = "done"
    /\ Len(csv.lines) >= 3
    /\ Cardinality(Emitters(csv.lines)) >= 2

(* C9: the csv is opened only after the document has been loaded: a run    *)
(* whose load fails ends with the csv never opened, and nothing is written *)
(* before the document is loaded.                                          *)
C9_LoadBeforeOpen ==
    /\ csv.state # "unopened" => js.loaded
    /\ csv.lines # <<>> => js.loaded
    /\ (pc = "crashed" /\ ~js.loaded) =>
          (csv.state = "unopened" /\ err \in {"FileNotFoundError", "JSONDecodeError"})

C9_Witness ==
    /\ pc = "crashed"
    /\ err \in {"FileNotFoundError", "JSONDecodeError"}
    /\ argv.filter # NoArg

(* C10: folder resolution gives the id of the first folder of that name,   *)
(* and None when there is none; an --exclude that names no folder excludes *)
(* nothing: every credential the include filter lets through is written.   *)
C10_FirstMatchOrNone ==
    Resolved =>
        /\ argv.filter # NoArg => folder_id = FirstMatch(argv.filter)
        /\ argv.exclude # NoArg => exclude = FirstMatch(argv.exclude)
        /\ Unresolvable(argv.exclude) =>
              /\ exclude = None
              /\ pc = "done" =>
                    \A idx \in 1..Len(js.items) :
                        (/\ js.items[idx].login.present
                         /\ folder_id # None => js.items[idx].folderId = folder_id)
                        => FullyWritten(idx)

C10_Witness ==
    /\ pc = "done"
    /\ Cardinality(Matches(argv.filter)) >= 2
    /\ Unresolvable(argv.exclude)
    /\ csv.lines # <<>>

====
